---- MODULE Spec2Model ----
(***************************************************************************)
(* Model of altair.utils.headless.save_spec: the export of a chart spec to *)
(* PNG or SVG through a headless Chrome driven by selenium.                *)
(*                                                                         *)
(* A Python str is the sequence of the code points of its characters, and  *)
(* a bytes object the sequence of its bytes.  None, a file object and an   *)
(* unbound local are one-element sequences whose element lies above the    *)
(* last code point (1114111), so that they differ from every str.          *)
(***************************************************************************)
EXTENDS Naturals, Sequences, FiniteSets

\* ------------------------------------------------------------------ bounds
\* Longest destination path drawn for the format-resolution specification.
MaxPathLen == 4
\* Number of consecutive exports of the same arguments.
MaxRuns == 2

\* ------------------------------------------------------------ Python values
None == <<1114112>>
FileObj == <<1114113>>
Unbound == <<1114114>>

\* 'png', 'svg', 'gif', 'canvas', 'vega', 'vega-lite', 'd3'
PNG == <<112, 110, 103>>
SVG == <<115, 118, 103>>
GIF == <<103, 105, 102>>
CANVAS == <<99, 97, 110, 118, 97, 115>>
VEGA == <<118, 101, 103, 97>>
VEGALITE == <<118, 101, 103, 97, 45, 108, 105, 116, 101>>
D3 == <<100, 51>>

\* The separators of fp.split('.') (line 82) and render.split(',') (line 117).
Dot == 46
Comma == 44

\* Characters of the destination paths of the format-resolution
\* specification: '.', 'p', 'n', 'g', 's', 'v'.
PathChars == {Dot, 112, 110, 103, 115, 118}

\* str.split(sep): the pieces of s between the occurrences of sep.
RECURSIVE Split(_, _)
Split(s, sep) ==
  IF \A i \in 1..Len(s) : s[i] # sep
  THEN <<s>>
  ELSE LET i == CHOOSE k \in 1..Len(s) :
                  s[k] = sep /\ \A j \in 1..(k - 1) : s[j] # sep
       IN  <<SubSeq(s, 1, i - 1)>> \o Split(SubSeq(s, i + 1, Len(s)), sep)

\* isinstance(fp, six.string_types)
IsString(fp) == fp # FileObj /\ fp # None

\* A plausible slip: the piece before the first '.' instead of after the last.
ResolveFormatFirstPiece(format, fp) ==
  IF format = None /\ IsString(fp) THEN Split(fp, Dot)[1] ELSE format

\* Lines 81-82: the format local after format resolution.
ResolveFormat(format, fp) ==
  IF format = None /\ IsString(fp)
  THEN LET pieces == Split(fp, Dot) IN pieces[Len(pieces)]
  ELSE format

\* A plausible slip: one more format let through.
FormatSupportedAlsoGif(fmt) == fmt \in {PNG, SVG, GIF}

\* Line 84: format in ['png', 'svg']
FormatSupported(fmt) == fmt \in {PNG, SVG}

\* A plausible slip: the mode is not checked.
ModeRecognizedAny(m) == TRUE

\* Line 94: mode in ['vega', 'vega-lite']
ModeRecognized(m) == m \in {VEGA, VEGALITE}

\* A plausible slip: the renderer does not follow the format.
RendererAlwaysSvg(fmt) == SVG

\* Line 92: 'canvas' if format == 'png' else 'svg'
Renderer(fmt) == IF fmt = PNG THEN CANVAS ELSE SVG

\* Lines 92-96: the opt dict (a function from its keys), for a mode that
\* passed the check of line 94 or is None.
BuildOpt(fmt, m) ==
  IF m # None
  THEN [k \in {"renderer", "mode"} |-> IF k = "renderer" THEN Renderer(fmt) ELSE m]
  ELSE [k \in {"renderer"} |-> Renderer(fmt)]

\* json.dumps of the opt dict: its members in insertion order.
JsonDumps(d) ==
  IF "mode" \in DOMAIN d
  THEN << <<"renderer", d["renderer"]>>, <<"mode", d["mode"]>> >>
  ELSE << <<"renderer", d["renderer"]>> >>

\* The object literal the browser evaluates from `const opt = {opt};`.
JsObject(members) ==
  [k \in {members[i][1] : i \in 1..Len(members)} |->
     LET i == CHOOSE j \in 1..Len(members) : members[j][1] = k IN members[i][2]]

\* Chart specs, each as the text json.dumps(spec) puts into the embed script
\* (line 107): '{"mark": "bar"}' and '{"mark": 0}'. The embed promise of
\* EMBED_CODE (lines 35-37) resolves for a spec the rendering library accepts
\* and is rejected (console.error) for the others.
BarSpec ==
  <<123, 34, 109, 97, 114, 107, 34, 58, 32, 34, 98, 97, 114, 34, 125>>
BrokenSpec == <<123, 34, 109, 97, 114, 107, 34, 58, 32, 48, 125>>
ChartSpecs == {BarSpec, BrokenSpec}
Renders(spec) == spec # BrokenSpec

\* The UTF-8 bytes of one code point; a surrogate (55296..57343) has none.
Utf8Char(c) ==
  IF c < 128 THEN <<c>>
  ELSE IF c < 2048 THEN <<192 + (c \div 64), 128 + (c % 64)>>
  ELSE IF c < 65536
  THEN <<224 + (c \div 4096), 128 + ((c \div 64) % 64), 128 + (c % 64)>>
  ELSE <<240 + (c \div 262144), 128 + ((c \div 4096) % 64),
         128 + ((c \div 64) % 64), 128 + (c % 64)>>

\* The bytes of a text without surrogates, code point by code point.
RECURSIVE Utf8Bytes(_)
Utf8Bytes(text) ==
  IF Len(text) = 0 THEN <<>>
  ELSE IF Len(text) = 1 THEN Utf8Char(text[1])
  ELSE LET h == Len(text) \div 2 IN
       Utf8Bytes(SubSeq(text, 1, h)) \o Utf8Bytes(SubSeq(text, h + 1, Len(text)))

\* str.encode(): the UTF-8 bytes of a text, or UnicodeEncodeError when it
\* holds a surrogate.
Utf8Encode(text) ==
  IF \E i \in 1..Len(text) : text[i] >= 55296 /\ text[i] <= 57343
  THEN [err |-> "UnicodeEncodeError", bytes |-> <<>>]
  ELSE [err |-> "none", bytes |-> Utf8Bytes(text)]

\* The value of a base64 character given by its code: A-Z, a-z, 0-9, '+',
\* '/'; 64 for a character outside the alphabet.
Base64Value(c) ==
  IF c >= 65 /\ c <= 90 THEN c - 65
  ELSE IF c >= 97 /\ c <= 122 THEN c - 71
  ELSE IF c >= 48 /\ c <= 57 THEN c + 4
  ELSE IF c = 43 THEN 62
  ELSE IF c = 47 THEN 63
  ELSE 64

\* The base64 character of a value 0..63, by its code.
Base64Char(v) ==
  IF v < 26 THEN v + 65
  ELSE IF v < 52 THEN v + 71
  ELSE IF v < 62 THEN v - 4
  ELSE IF v = 62 THEN 43
  ELSE 47

\* The base64 text of bytes: four characters for each three bytes, padded
\* with '=' (61).
RECURSIVE Base64Encode(_)
Base64Encode(bytes) ==
  LET ch(v) == Base64Char(v)
      b(k) == bytes[k]
  IN  IF Len(bytes) = 0 THEN <<>>
      ELSE IF Len(bytes) = 1
      THEN <<ch(b(1) \div 4), ch((b(1) % 4) * 16), 61, 61>>
      ELSE IF Len(bytes) = 2
      THEN <<ch(b(1) \div 4), ch((b(1) % 4) * 16 + (b(2) \div 16)),
             ch((b(2) % 16) * 4), 61>>
      ELSE <<ch(b(1) \div 4), ch((b(1) % 4) * 16 + (b(2) \div 16)),
             ch((b(2) % 16) * 4 + (b(3) \div 64)), ch(b(3) % 64)>>
           \o Base64Encode(SubSeq(bytes, 4, Len(bytes)))

\* Line 117: base64.decodebytes(data), that is binascii.a2b_base64 read as
\* one pass over the bytes. Bytes outside the alphabet are dropped. An '='
\* (61) ends the input when, with the '=' directly before it, it completes
\* the group of four begun by two or three data characters; other '=' are
\* dropped. Each four data characters give three bytes; a group cut short by
\* the end of the input raises binascii.Error.
Base64Decode(data) ==
  LET IsData(c) == Base64Value(c) < 64
      DataBefore(i) == Cardinality({j \in 1..(i - 1) : IsData(data[j])})
      PadsBefore(i) ==
        Cardinality({j \in 1..(i - 1) :
                       /\ data[j] = 61
                       /\ \A k \in (j + 1)..(i - 1) : ~IsData(data[k])})
      Stops == {i \in 1..Len(data) :
                  /\ data[i] = 61
                  /\ (DataBefore(i) % 4) >= 2
                  /\ (DataBefore(i) % 4) + PadsBefore(i) + 1 >= 4}
      end == IF Stops = {} THEN Len(data) + 1
             ELSE CHOOSE i \in Stops : \A j \in Stops : i <= j
      digits == SelectSeq(SubSeq(data, 1, end - 1), IsData)
      n == Len(digits)
      v(k) == Base64Value(digits[k])
      count == 3 * (n \div 4) + (IF (n % 4) = 0 THEN 0 ELSE (n % 4) - 1)
      byte(k) ==
        LET g == 4 * ((k - 1) \div 3)
            r == (k - 1) % 3
        IN  IF r = 0 THEN v(g + 1) * 4 + (v(g + 2) \div 16)
            ELSE IF r = 1 THEN (v(g + 2) % 16) * 16 + (v(g + 3) \div 4)
            ELSE (v(g + 3) % 4) * 64 + v(g + 4)
  IN  IF Stops = {} /\ (n % 4) # 0
      THEN [err |-> "binascii.Error", bytes |-> <<>>]
      ELSE [err |-> "none", bytes |-> [k \in 1..count |-> byte(k)]]

\* What the rendering library draws: fixed by the spec and the options
\* (the spec, the renderer, then ':' and the mode when one is given).
Drawing(spec, o) ==
  spec \o o["renderer"] \o (IF "mode" \in DOMAIN o THEN <<58>> \o o["mode"] ELSE <<>>)

\* The bytes of the PNG image of a drawing: the PNG signature's first bytes,
\* then the drawing.
PngBytes(spec, o) == <<137, 80, 78, 71>> \o Utf8Bytes(Drawing(spec, o))

\* Line 43: canvas.toDataURL('image/png'): 'data:image/png;base64,' and the
\* base64 text of the image.
ToDataURL(spec, o) ==
  <<100, 97, 116, 97, 58, 105, 109, 97, 103, 101, 47, 112, 110, 103, 59, 98, 97, 115, 101, 54, 52, 44>>
    \o Base64Encode(PngBytes(spec, o))

\* Line 47: view.toSVG(): '<svg>', the drawing, '</svg>'.
ToSVG(spec, o) ==
  <<60, 115, 118, 103, 62>> \o Drawing(spec, o) \o <<60, 47, 115, 118, 103, 62>>

\* Lines 40-50: CONVERT_CODE[format], the value stored in window.image_render.
ConvertResult(fmt, spec, o) ==
  IF fmt = PNG THEN ToDataURL(spec, o) ELSE ToSVG(spec, o)

\* Lines 116-120: img_bytes, or the exception the decoding raises.
DecodeRender(fmt, render) ==
  IF render = None
  THEN [err |-> "AttributeError", bytes |-> <<>>]
  ELSE IF fmt = PNG
  THEN LET pieces == Split(render, Comma) IN
       IF Len(pieces) < 2 THEN [err |-> "IndexError", bytes |-> <<>>]
       ELSE LET payload == Utf8Encode(pieces[2]) IN
            IF payload.err # "none" THEN payload
            ELSE Base64Decode(payload.bytes)
  ELSE Utf8Encode(render)

\* A plausible slip: one try whose finally holds both os.remove and
\* driver.close, so that a failing os.remove skips driver.close.
UnwindOneFinally(at) ==
  IF at = "launch" THEN "close"
  ELSE IF at \in {"mkstemp", "open", "write", "get", "embed", "convert", "extract"}
  THEN "remove"
  ELSE "raise"

\* A plausible slip: a failing embed script is caught and the export goes on.
UnwindSwallowEmbedError(at) ==
  IF at = "launch" THEN "close"
  ELSE IF at = "embed" THEN "convert"
  ELSE IF at \in {"mkstemp", "open", "write", "get", "convert", "extract"}
  THEN "remove"
  ELSE IF at = "remove" THEN "close"
  ELSE "raise"

\* A plausible slip: the optional import is probed and its failure ignored.
UnwindIgnoreImportError(at) ==
  IF at = "import" THEN "build_opt"
  ELSE IF at = "launch" THEN "close"
  ELSE IF at \in {"mkstemp", "open", "write", "get", "embed", "convert", "extract"}
  THEN "remove"
  ELSE IF at = "remove" THEN "close"
  ELSE "raise"

\* Lines 98-114: where control goes when the statement at `at` raises: the
\* innermost enclosing finally block, or out of save_spec.
Unwind(at) ==
  IF at = "launch" THEN "close"
  ELSE IF at \in {"mkstemp", "open", "write", "get", "embed", "convert", "extract"}
  THEN "remove"
  ELSE IF at = "remove" THEN "close"
  ELSE "raise"

\* A plausible slip: the code after the try runs although an exception is
\* propagating (a return or a bare except in the cleanup).
AfterCleanupSwallow(e) == "decode"

\* Lines 113-116: after the outer finally, a propagating exception leaves
\* save_spec and otherwise the decoding starts.
AfterCleanup(e) == IF e = "none" THEN "decode" ELSE "raise"

\* attempt_import (altair.utils.importing), as the specification describes it:
\* the module when the package is installed, else an error naming it.
AttemptImport(installed) == IF installed THEN "none" ELSE "ImportError"

\* write_file_or_filename (altair.utils.core), as the specification describes
\* it: a path is opened in binary-write mode and written, a file object is
\* written to; io is how the operating system answers.
WriteFileOrFilename(fp, bytes, io) ==
  IF io = "ok"
  THEN [err |-> "none", dest |-> [state |-> "written", bytes |-> bytes]]
  ELSE IF io = "open-failed"
  THEN [err |-> "IOError", dest |-> [state |-> "untouched", bytes |-> <<>>]]
  ELSE [err |-> "IOError", dest |-> [state |-> "truncated", bytes |-> <<>>]]

\* ------------------------------------------------------------------- state
VARIABLES
  args,          \* the arguments of the call: spec, fp, mode, format
  selenium,      \* whether the selenium package can be imported
  run,           \* which export of the same arguments this is
  history,       \* what the earlier exports ended with
  pc,            \* the statement of save_spec about to run
  format,        \* the local `format`
  opt,           \* the local `opt`, <<>> until line 92 binds it
  driver,        \* whether the local `driver` is bound
  name,          \* whether the local `name` is bound
  render,        \* the local `render`
  img_bytes,     \* the local `img_bytes`
  exc,           \* the exception propagating through the finally blocks
  outcome,       \* "running", "returned" or the exception save_spec raised
  log,           \* the calls made so far, each with its result
  session,       \* the browser session: "none", "open", "closed"
  tmp,           \* the temp file: "absent", "empty", "partial", "html", "removed"
  fd,            \* the descriptor mkstemp returned: "none", "open", "closed"
  f,             \* the file object of line 104: "none", "open", "closed"
  dest,          \* the destination: its state and the bytes written
  page,          \* the browser's document: "blank", "loaded"
  embed,         \* the vegaEmbed promise: "idle", "pending", "resolved", "rejected"
  view,          \* whether window.view is assigned
  convert,       \* the conversion promise: "idle", "pending", "resolved"
  image_render,  \* window.image_render, None while undefined
  jsOpt          \* the `opt` constant of the embed script, <<>> until it runs

inputs == <<args, selenium, run, history>>
locals == <<format, opt, driver, name, render, img_bytes>>
control == <<pc, exc, outcome, log>>
files == <<tmp, fd, f, dest>>
browser == <<session, page, embed, view, convert, image_render, jsOpt>>
vars == <<inputs, locals, control, files, browser>>

\* The statements of save_spec, in order, and "done" once it has returned or
\* raised.
Statements ==
  <<"resolve", "check_format", "import", "build_opt", "launch", "mkstemp", "open",
    "write", "get", "embed", "convert", "extract", "remove", "close", "decode",
    "write_dest", "done">>

\* The values the state takes.
TypeOK ==
  /\ pc \in {Statements[i] : i \in 1..Len(Statements)}
  /\ driver \in BOOLEAN /\ name \in BOOLEAN /\ view \in BOOLEAN
  /\ selenium \in BOOLEAN
  /\ exc \in {"none", "NotImplementedError", "ImportError", "ValueError",
              "WebDriverException", "OSError", "UnboundLocalError",
              "AttributeError", "IndexError", "binascii.Error",
              "UnicodeEncodeError", "IOError"}
  /\ outcome \in {"running", "returned", "NotImplementedError", "ImportError",
                  "ValueError", "WebDriverException", "OSError",
                  "UnboundLocalError", "AttributeError", "IndexError",
                  "binascii.Error", "UnicodeEncodeError", "IOError"}
  /\ session \in {"none", "open", "closed"}
  /\ tmp \in {"absent", "empty", "partial", "html", "removed"}
  /\ fd \in {"none", "open", "closed"}
  /\ f \in {"none", "open", "closed"}
  /\ dest.state \in {"untouched", "written", "truncated"}
  /\ page \in {"blank", "loaded"}
  /\ embed \in {"idle", "pending", "resolved", "rejected"}
  /\ convert \in {"idle", "pending", "resolved"}
  /\ (pc = "done") <=> (outcome # "running")
  /\ (session = "open") => driver
  /\ (tmp # "absent") => name

\* The paths 'a.png', 'a.svg' and 'a.gif'.
APng == <<97, 46, 112, 110, 103>>
ASvg == <<97, 46, 115, 118, 103>>
AGif == <<97, 46, 103, 105, 102>>

\* Destinations, explicit formats and modes of the calls explored.
Destinations ==
  {APng, ASvg, AGif, FileObj}
Formats == {None, PNG, SVG, GIF}
Modes == {None, VEGA, VEGALITE, D3}

Untouched == [state |-> "untouched", bytes |-> <<>>]

\* The state of a call that has not run a statement yet.
Fresh ==
  /\ pc = "resolve"
  /\ opt = <<>>
  /\ driver = FALSE
  /\ name = FALSE
  /\ render = Unbound
  /\ img_bytes = Unbound
  /\ exc = "none"
  /\ outcome = "running"
  /\ log = <<>>
  /\ session = "none"
  /\ tmp = "absent"
  /\ fd = "none"
  /\ f = "none"
  /\ dest = Untouched
  /\ page = "blank"
  /\ embed = "idle"
  /\ view = FALSE
  /\ convert = "idle"
  /\ image_render = None
  /\ jsOpt = <<>>

Init ==
  /\ args \in [spec : ChartSpecs, fp : Destinations, mode : Modes, format : Formats]
  /\ selenium \in BOOLEAN
  /\ run = 1
  /\ history = <<>>
  /\ format = args.format
  /\ Fresh

\* The statement `at` returned normally and `next` follows it.
Proceed(at, next) ==
  /\ log' = Append(log, <<at, "ok">>)
  /\ pc' = next
  /\ UNCHANGED <<exc, outcome>>

\* The statement `at` raised e (for the reason why): the exception replaces
\* the one propagating, and control goes to the enclosing finally or out.
Raise(at, e, why) ==
  /\ log' = Append(log, <<at, why>>)
  /\ exc' = e
  /\ IF Unwind(at) = "raise"
     THEN pc' = "done" /\ outcome' = e
     ELSE pc' = Unwind(at) /\ outcome' = outcome

\* Lines 81-82
ResolveStep ==
  /\ pc = "resolve"
  /\ format' = ResolveFormat(format, args.fp)
  /\ pc' = "check_format"
  /\ UNCHANGED <<inputs, opt, driver, name, render, img_bytes, exc, outcome, log,
                 files, browser>>

\* Lines 84-85
CheckFormat ==
  /\ pc = "check_format"
  /\ IF FormatSupported(format)
     THEN pc' = "import" /\ UNCHANGED <<exc, outcome, log>>
     ELSE Raise("check_format", "NotImplementedError", "unsupported")
  /\ UNCHANGED <<inputs, locals, files, browser>>

\* Lines 87-90: the two attempt_import calls for the selenium package.
ImportSelenium ==
  /\ pc = "import"
  /\ IF AttemptImport(selenium) = "none"
     THEN Proceed("import", "build_opt")
     ELSE Raise("import", AttemptImport(selenium), "missing")
  /\ UNCHANGED <<inputs, locals, files, browser>>

\* Lines 92-96
BuildOptStep ==
  /\ pc = "build_opt"
  /\ IF args.mode # None /\ ~ModeRecognized(args.mode)
     THEN /\ Raise("build_opt", "ValueError", "mode")
          /\ opt' = [k \in {"renderer"} |-> Renderer(format)]
     ELSE /\ opt' = BuildOpt(format, args.mode)
          /\ pc' = "launch"
          /\ UNCHANGED <<exc, outcome, log>>
  /\ UNCHANGED <<inputs, format, driver, name, render, img_bytes, files, browser>>

\* Lines 99-101: webdriver.Chrome(chrome_options=...)
Launch ==
  /\ pc = "launch"
  /\ \E ok \in BOOLEAN :
       IF ok
       THEN Proceed("launch", "mkstemp") /\ driver' = TRUE /\ session' = "open"
       ELSE Raise("launch", "WebDriverException", "env")
            /\ UNCHANGED <<driver, session>>
  /\ UNCHANGED <<inputs, format, opt, name, render, img_bytes, files,
                 page, embed, view, convert, image_render, jsOpt>>

\* Line 103: tempfile.mkstemp(suffix='.html', text=True)
Mkstemp ==
  /\ pc = "mkstemp"
  /\ \E ok \in BOOLEAN :
       IF ok
       THEN Proceed("mkstemp", "open") /\ name' = TRUE /\ tmp' = "empty"
            /\ fd' = "open"
       ELSE Raise("mkstemp", "OSError", "env") /\ UNCHANGED <<name, tmp, fd>>
  /\ UNCHANGED <<inputs, format, opt, driver, render, img_bytes, f, dest, browser>>

\* Line 104: open(name, 'w')
OpenTmp ==
  /\ pc = "open"
  /\ \E ok \in BOOLEAN :
       IF ok
       THEN Proceed("open", "write") /\ f' = "open"
       ELSE Raise("open", "OSError", "env") /\ UNCHANGED f
  /\ UNCHANGED <<inputs, locals, tmp, fd, dest, browser>>

\* Line 105 and the end of the with block, which closes f either way.
\* f.write buffers the text and the close of the with block flushes it; when
\* either raises (a full disk, a file-size limit), none, a part or all of
\* HTML_TEMPLATE has reached the file.
WriteTmp ==
  /\ pc = "write"
  /\ f' = "closed"
  /\ \E ok \in BOOLEAN :
       IF ok
       THEN Proceed("write", "get") /\ tmp' = "html"
       ELSE /\ Raise("write", "OSError", "env")
            /\ tmp' \in {"empty", "partial", "html"}
  /\ UNCHANGED <<inputs, locals, fd, dest, browser>>

\* Line 106: driver.get("file://" + name), which returns once the document
\* is loaded.
Get ==
  /\ pc = "get"
  /\ \E ok \in BOOLEAN :
       IF ok
       THEN Proceed("get", "embed") /\ page' = "loaded"
       ELSE Raise("get", "WebDriverException", "env") /\ UNCHANGED page
  /\ UNCHANGED <<inputs, locals, files, session, embed, view, convert,
                 image_render, jsOpt>>

\* Lines 107-108: the embed script starts vegaEmbed and returns at once.
EmbedScript ==
  /\ pc = "embed"
  /\ \E ok \in BOOLEAN :
       IF ok
       THEN Proceed("embed", "convert") /\ embed' = "pending"
            /\ jsOpt' = JsObject(JsonDumps(opt))
       ELSE Raise("embed", "WebDriverException", "env")
            /\ UNCHANGED <<embed, jsOpt>>
  /\ UNCHANGED <<inputs, locals, files, session, page, view, convert, image_render>>

\* Line 109: the conversion script calls a method of window.view, which
\* throws while window.view is undefined, and otherwise returns at once.
ConvertScript ==
  /\ pc = "convert"
  /\ \E ok \in BOOLEAN :
       IF ~ok
       THEN Raise("convert", "WebDriverException", "env") /\ UNCHANGED convert
       ELSE IF ~view
       THEN Raise("convert", "WebDriverException", "no-view") /\ UNCHANGED convert
       ELSE Proceed("convert", "extract") /\ convert' = "pending"
  /\ UNCHANGED <<inputs, locals, files, session, page, embed, view, image_render,
                 jsOpt>>

\* Line 110: the extraction script returns window.image_render as it is.
ExtractScript ==
  /\ pc = "extract"
  /\ \E ok \in BOOLEAN :
       IF ok
       THEN Proceed("extract", "remove") /\ render' = image_render
       ELSE Raise("extract", "WebDriverException", "env") /\ UNCHANGED render
  /\ UNCHANGED <<inputs, format, opt, driver, name, img_bytes, files, browser>>

\* Lines 111-112: os.remove(name) in the inner finally. The removal can be
\* refused (where an open file cannot be removed, the descriptor of line 103,
\* which is still open, is enough), and the file is then left as it is.
RemoveTmp ==
  /\ pc = "remove"
  /\ IF ~name
     THEN Raise("remove", "UnboundLocalError", "unbound") /\ UNCHANGED tmp
     ELSE \E ok \in BOOLEAN :
            IF ok
            THEN /\ log' = Append(log, <<"remove", "ok">>)
                 /\ pc' = "close"
                 /\ tmp' = "removed"
                 /\ UNCHANGED <<exc, outcome>>
            ELSE Raise("remove", "OSError", "env") /\ UNCHANGED tmp
  /\ UNCHANGED <<inputs, locals, fd, f, dest, browser>>

\* Lines 113-114: driver.close() in the outer finally, and what follows it.
CloseDriver ==
  /\ pc = "close"
  /\ IF ~driver
     THEN Raise("close", "UnboundLocalError", "unbound") /\ UNCHANGED session
     ELSE \E ok \in BOOLEAN :
            IF ok
            THEN /\ log' = Append(log, <<"close", "ok">>)
                 /\ session' = "closed"
                 /\ exc' = exc
                 /\ IF AfterCleanup(exc) = "raise"
                    THEN pc' = "done" /\ outcome' = exc
                    ELSE pc' = AfterCleanup(exc) /\ outcome' = outcome
            ELSE Raise("close", "WebDriverException", "env") /\ UNCHANGED session
  /\ UNCHANGED <<inputs, locals, files, page, embed, view, convert, image_render,
                 jsOpt>>

\* Lines 116-117 and 120: the decoding of render into img_bytes.
Decode ==
  /\ pc = "decode"
  /\ LET d == DecodeRender(format, render) IN
       IF d.err = "none"
       THEN Proceed("decode", "write_dest") /\ img_bytes' = d.bytes
       ELSE Raise("decode", d.err, "render") /\ UNCHANGED img_bytes
  /\ UNCHANGED <<inputs, format, opt, driver, name, render, files, browser>>

\* Lines 118 and 121: write_file_or_filename(fp, img_bytes, mode='wb'), after
\* which save_spec returns.
WriteDest ==
  /\ pc = "write_dest"
  /\ \E io \in {"ok", "open-failed", "write-failed"} :
       /\ io = "open-failed" => IsString(args.fp)
       /\ LET w == WriteFileOrFilename(args.fp, img_bytes, io) IN
            /\ dest' = w.dest
            /\ IF w.err = "none"
               THEN /\ log' = Append(log, <<"write_dest", "ok">>)
                    /\ pc' = "done"
                    /\ outcome' = "returned"
                    /\ exc' = exc
               ELSE Raise("write_dest", w.err, "env")
  /\ UNCHANGED <<inputs, locals, tmp, fd, f, browser>>

\* Lines 35-37: the vegaEmbed promise settles; window.view is assigned when
\* it resolves.
EmbedSettles ==
  /\ session = "open"
  /\ embed = "pending"
  /\ IF Renders(args.spec)
     THEN embed' = "resolved" /\ view' = TRUE
     ELSE embed' = "rejected" /\ view' = view
  /\ UNCHANGED <<inputs, locals, control, files, session, page, convert,
                 image_render, jsOpt>>

\* Lines 42-44 and 47-49: the conversion promise resolves and assigns
\* window.image_render.
ConvertSettles ==
  /\ session = "open"
  /\ convert = "pending"
  /\ convert' = "resolved"
  /\ image_render' = ConvertResult(format, args.spec, jsOpt)
  /\ UNCHANGED <<inputs, locals, control, files, session, page, embed, view, jsOpt>>

Next ==
  \/ ResolveStep \/ CheckFormat \/ ImportSelenium \/ BuildOptStep
  \/ Launch \/ Mkstemp \/ OpenTmp \/ WriteTmp \/ Get
  \/ EmbedScript \/ ConvertScript \/ ExtractScript
  \/ RemoveTmp \/ CloseDriver \/ Decode \/ WriteDest
  \/ EmbedSettles \/ ConvertSettles

Spec == Init /\ [][Next]_vars

\* ----------------------------------------------- format resolution alone
\* Every path of at most MaxPathLen characters.
AllPaths == UNION {[1..n -> PathChars] : n \in 0..MaxPathLen}

InitFormat ==
  /\ args \in [spec : {BarSpec}, fp : AllPaths \cup {FileObj}, mode : {None},
               format : Formats]
  /\ selenium = TRUE
  /\ run = 1
  /\ history = <<>>
  /\ format = args.format
  /\ Fresh

NextFormat == ResolveStep \/ CheckFormat

SpecFormat == InitFormat /\ [][NextFormat]_vars

\* ------------------------------------ the same export, one after another
\* No call of this export failed for a reason outside save_spec.
NoEnvFault == \A i \in 1..Len(log) : log[i][2] # "env"

\* save_spec is called again with the same arguments and a new destination.
Again ==
  /\ pc = "done"
  /\ run < MaxRuns
  /\ run' = run + 1
  /\ history' = Append(history, [outcome |-> outcome, dest |-> dest,
                                 clean |-> NoEnvFault])
  /\ format' = args.format
  /\ pc' = "resolve" /\ exc' = "none" /\ outcome' = "running" /\ log' = <<>>
  /\ opt' = <<>> /\ driver' = FALSE /\ name' = FALSE
  /\ render' = Unbound /\ img_bytes' = Unbound
  /\ session' = "none" /\ tmp' = "absent" /\ fd' = "none" /\ f' = "none"
  /\ dest' = Untouched
  /\ page' = "blank" /\ embed' = "idle" /\ view' = FALSE /\ convert' = "idle"
  /\ image_render' = None /\ jsOpt' = <<>>
  /\ UNCHANGED <<args, selenium>>

NextTwice == Next \/ Again

SpecTwice == Init /\ [][NextTwice]_vars

\* ------------------------------------------------------------- properties
\* The call `at` was made and ended as `res`.
Logged(at, res) == \E i \in 1..Len(log) : log[i] = <<at, res>>
\* The call `at` was made.
Called(at) == \E i \in 1..Len(log) : log[i][1] = at
\* save_spec has left its try statement (it returned, raised, or is decoding).
Left == pc \in {"decode", "write_dest", "done"}
\* The steps whose failure the cleanup has to survive.
BodySteps == {"launch", "mkstemp", "open", "write", "get", "embed", "convert",
              "extract"}

\* C1 (as claimed): on every path that got past validation and entered the
\* try statement (success, or a failure of webdriver.Chrome, mkstemp, open,
\* write, driver.get or one of the three execute_script calls), when the call
\* has returned or raised the temp file does not exist and no browser session
\* of the call is open.
CleanupOnEveryListedPath ==
  (pc = "done" /\ Called("launch"))
    => (tmp \in {"absent", "removed"} /\ session \in {"none", "closed"})

\* C2 (as claimed): the decoding is never entered with an unpopulated
\* extraction result; the call has failed before (with RenderTimeout).
NeverDecodesUnpopulated == pc = "decode" => render # None

\* C3: with format None and a path that holds a '.', the resolved format is
\* the text after the last '.', so that a path ending in ".png" resolves to
\* png and one ending in ".svg" to svg; and the call raises
\* NotImplementedError exactly when the resolved format is not png or svg,
\* which includes format None with a file object.
FormatResolution ==
  /\ (pc # "resolve" /\ args.format = None /\ IsString(args.fp)) =>
       \A i \in 1..Len(args.fp) :
         (args.fp[i] = Dot /\ \A j \in (i + 1)..Len(args.fp) : args.fp[j] # Dot)
           => format = SubSeq(args.fp, i + 1, Len(args.fp))
  /\ (pc # "resolve" /\ ~(args.format = None /\ IsString(args.fp))) =>
       format = args.format
  /\ pc \notin {"resolve", "check_format"} =>
       /\ (format \notin {PNG, SVG}) <=> (outcome = "NotImplementedError")
       /\ (args.format = None /\ args.fp = FileObj) => outcome = "NotImplementedError"

\* C3 witness: the path ".png" with no explicit format passed the check as png.
ResolvedPngFromSuffix ==
  /\ args.format = None
  /\ args.fp = <<Dot>> \o PNG
  /\ pc = "import"
  /\ format = PNG
  /\ outcome = "running"

\* C4: when the resolved format is unsupported the call raises
\* NotImplementedError and nothing else has happened: no import attempted,
\* no browser launched, no temp file created, the destination untouched.
UnsupportedFormatNoSideEffect ==
  (pc \notin {"resolve", "check_format"} /\ format \notin {PNG, SVG}) =>
    /\ pc = "done"
    /\ outcome = "NotImplementedError"
    /\ log = << <<"check_format", "unsupported">> >>
    /\ session = "none"
    /\ tmp = "absent"
    /\ fd = "none"
    /\ f = "none"
    /\ dest = Untouched

\* C4 witness: the destination a.gif with no explicit format was refused.
GifRefused ==
  /\ args.fp = AGif
  /\ args.format = None
  /\ pc = "done"
  /\ outcome = "NotImplementedError"

\* A mode that is supplied and is not recognized.
BadMode == args.mode \notin {None, VEGA, VEGALITE}

\* C5 (as claimed): every call with a supplied, unrecognized mode raises
\* ValueError, with no browser session and no temp file.
BadModeRaisesValueError ==
  (pc = "done" /\ BadMode) =>
    (outcome = "ValueError" /\ session = "none" /\ tmp = "absent")

\* C5 (amended): a call with a supplied, unrecognized mode never acquires a
\* browser session or a temp file, and it raises ValueError when the
\* resolved format is supported and selenium can be imported; otherwise the
\* earlier check raises NotImplementedError or the import error.
BadModeFailsBeforeResources ==
  BadMode =>
    /\ session = "none" /\ tmp = "absent" /\ fd = "none"
    /\ ~Called("launch") /\ ~Called("mkstemp")
    /\ pc \in {"resolve", "check_format", "import", "build_opt", "done"}
    /\ pc = "done" =>
         outcome = IF format \notin {PNG, SVG} THEN "NotImplementedError"
                   ELSE IF ~selenium THEN "ImportError"
                   ELSE "ValueError"

\* C5 witness: the mode d3 was refused with ValueError.
BadModeRefused ==
  /\ args.mode = D3
  /\ pc = "done"
  /\ outcome = "ValueError"
  /\ Logged("build_opt", "mode")

\* C6 (as claimed): when webdriver.Chrome raises, that failure is what
\* save_spec raises.
LaunchFailureSurfaces ==
  (pc = "done" /\ Logged("launch", "env")) => outcome = "WebDriverException"

\* C7: the destination is touched only by the last step of an export whose
\* every earlier step succeeded, after the render was extracted and decoded;
\* an export that returns has written exactly the decoded bytes.
WriteOnlyAfterDecode ==
  /\ dest # Untouched =>
       /\ pc = "done"
       /\ log[Len(log)][1] = "write_dest"
       /\ \A i \in 1..(Len(log) - 1) : log[i][2] = "ok"
       /\ \A at \in BodySteps \cup {"import", "remove", "close", "decode"} :
            Logged(at, "ok")
       /\ render \notin {None, Unbound}
       /\ img_bytes # Unbound
       /\ img_bytes = DecodeRender(format, render).bytes
  /\ (pc = "done" /\ outcome = "returned") =>
       dest = [state |-> "written", bytes |-> img_bytes]
  /\ (pc = "done" /\ outcome # "returned" /\ ~Called("write_dest")) =>
       dest = Untouched

\* C7 witness: an svg export returned with the decoded bytes written.
SvgWritten ==
  /\ pc = "done"
  /\ outcome = "returned"
  /\ format = SVG
  /\ dest.state = "written"
  /\ dest.bytes = Utf8Bytes(ToSVG(args.spec, jsOpt))

\* C8: the options the embed script received have renderer canvas exactly
\* for png and svg exactly for svg, a mode key exactly when a mode was
\* supplied, then equal to it, and no other key.
EmbedOptions ==
  embed # "idle" =>
    /\ (jsOpt["renderer"] = CANVAS) <=> (format = PNG)
    /\ (jsOpt["renderer"] = SVG) <=> (format = SVG)
    /\ ("mode" \in DOMAIN jsOpt) <=> (args.mode # None)
    /\ "mode" \in DOMAIN jsOpt => jsOpt["mode"] = args.mode
    /\ DOMAIN jsOpt \subseteq {"renderer", "mode"}
    /\ "renderer" \in DOMAIN jsOpt

\* C8 witness: an svg export with mode vega-lite ran its embed script.
SvgVegaLiteOptions ==
  /\ embed # "idle"
  /\ format = SVG
  /\ args.mode = VEGALITE
  /\ jsOpt["renderer"] = SVG
  /\ jsOpt["mode"] = VEGALITE

\* C9 (as claimed): a second export of the same arguments, neither export
\* having failed for a reason outside save_spec, ends as the first did and
\* writes the same bytes.
ExportDeterministic ==
  (run = 2 /\ pc = "done" /\ NoEnvFault /\ history[1].clean) =>
    (outcome = history[1].outcome /\ dest = history[1].dest)

\* C10: the temp file is created only after a successful browser launch and
\* never after a failed one; os.remove is called before driver.close; and
\* when os.remove itself fails, driver.close is still called and closes the
\* session.
AcquireReleaseOrder ==
  /\ \A i \in 1..Len(log) :
       log[i][1] = "mkstemp" => \E j \in 1..(i - 1) : log[j] = <<"launch", "ok">>
  /\ Logged("launch", "env") => (~Called("mkstemp") /\ tmp = "absent")
  /\ \A i, j \in 1..Len(log) :
       (log[i][1] = "remove" /\ log[j][1] = "close") => i < j
  /\ (Left /\ Called("mkstemp")) => (Called("remove") /\ Called("close"))
  /\ (Left /\ Logged("remove", "env")) =>
       /\ Called("close")
       /\ Logged("close", "ok") => session = "closed"
  /\ session = "closed" => tmp \in {"absent", "removed"} \/ Logged("remove", "env")

\* C10 witness: os.remove failed and the session was closed all the same.
ClosedAfterFailedRemove ==
  /\ pc = "done"
  /\ Logged("remove", "env")
  /\ Logged("close", "ok")
  /\ session = "closed"
  /\ tmp = "html"

\* The calls of save_spec that run a script in the browser.
Scripts == {"embed", "convert", "extract"}
\* How many times the call `at` was made.
Times(at) == Cardinality({i \in 1..Len(log) : log[i][1] = at})
\* The call `at` was made, after the call `before` had succeeded.
CalledAfterOk(at, before) ==
  \A i \in 1..Len(log) :
    log[i][1] = at => \E j \in 1..(i - 1) : log[j] = <<before, "ok">>

\* C11: one export launches at most one browser session and navigates at
\* most once; each script runs at most once, embed only after the navigation
\* succeeded, the conversion (the one of the resolved format) only after
\* embed succeeded, the extraction only after the conversion succeeded; no
\* script runs after os.remove or driver.close; a script that has run found
\* the session open and the temp document in place.
ScriptProtocol ==
  /\ \A at \in Scripts \cup {"launch", "get"} : Times(at) <= 1
  /\ CalledAfterOk("get", "launch")
  /\ CalledAfterOk("embed", "get")
  /\ CalledAfterOk("convert", "embed")
  /\ CalledAfterOk("extract", "convert")
  /\ \A i, j \in 1..Len(log) :
       (log[i][1] \in Scripts /\ log[j][1] \in {"remove", "close"}) => i < j
  /\ pc \in {"embed", "convert", "extract"} => (session = "open" /\ tmp = "html")
  /\ convert = "resolved" =>
       image_render = (IF format = PNG THEN ToDataURL(args.spec, jsOpt)
                       ELSE ToSVG(args.spec, jsOpt))

\* C11 witness: the three scripts have run, in order, and the export is over.
ThreeScriptsInOrder ==
  /\ pc = "done"
  /\ \E i, j, k \in 1..Len(log) :
       /\ i < j /\ j < k
       /\ log[i] = <<"embed", "ok">>
       /\ log[j] = <<"convert", "ok">>
       /\ log[k] = <<"extract", "ok">>
  /\ Logged("remove", "ok")
  /\ Logged("close", "ok")

\* C12 (as claimed): the conversion script never runs while window.view is
\* unassigned: whenever it is about to run or has run, the embed promise had
\* resolved and stored the view.
ConvertFindsView ==
  /\ pc = "convert" => view
  /\ ~Logged("convert", "no-view")

\* C13: with the selenium bindings missing and a supported resolved format,
\* save_spec raises the import error of attempt_import, with no browser
\* session, no temp file and the destination untouched.
MissingDependencyFailsFast ==
  (~selenium /\ format \in {PNG, SVG} /\ pc \notin {"resolve", "check_format", "import"})
    => /\ pc = "done"
       /\ outcome = "ImportError"
       /\ log = << <<"import", "missing">> >>
       /\ session = "none" /\ ~Called("launch")
       /\ tmp = "absent" /\ fd = "none" /\ ~Called("mkstemp")
       /\ dest = Untouched

\* C13 witness: a png export without selenium has raised the import error.
ImportErrorRaised ==
  /\ ~selenium
  /\ format = PNG
  /\ pc = "done"
  /\ outcome = "ImportError"
  /\ Logged("import", "missing")

\* C14 (as claimed): when mkstemp raises after the browser was launched and
\* driver.close does not fail in turn, the session is closed, the caller gets
\* the error of mkstemp, and os.remove is not attempted, no temp file having
\* been created.
MkstempFailureSurfaces ==
  (pc = "done" /\ Logged("mkstemp", "env") /\ ~Logged("close", "env")) =>
    /\ session = "closed"
    /\ outcome = "OSError"
    /\ ~Called("remove")

\* C15 (as claimed): once save_spec has returned or raised, neither the
\* descriptor mkstemp returned nor the file object of line 104 is open.
TempHandlesClosed ==
  pc = "done" => (fd # "open" /\ f # "open")
====
